---- MODULE Spec2Model ----
(***************************************************************************)
(* The Tetris engine of src/script.js as a state machine: the board, the   *)
(* current and next piece, score / lines / level, the running flags, the   *)
(* drop timer and the 7-bag, driven by the key handler, the two buttons    *)
(* and the frame callback.  Drawing, sound and storage are left out; the   *)
(* sounds a handler triggers are kept as the record `ev`.                  *)
(***************************************************************************)
EXTENDS Integers, Sequences, FiniteSets, TLC

VARIABLES board, current, next, score, lines, level,
          running, paused, gameOver, dropCounter, dropInterval, bag,
          drawn,  \* the kinds taken from the bag since it was last reset, oldest first
          ev,     \* what the last handler did: piece locked, rows cleared, rows hard-dropped, game over
          last,   \* the input the last handler received
          pc,     \* how many inputs of the recorded play have been replayed
          free    \* how many inputs were chosen freely after leaving the recorded play

gameVars == <<board, current, next, score, lines, level,
              running, paused, gameOver, dropCounter, dropInterval, bag>>
vars == <<board, current, next, score, lines, level,
          running, paused, gameOver, dropCounter, dropInterval, bag,
          drawn, ev, last, pc, free>>

----------------------------------------------------------------------------
(* Game constants *)

COLS == 10
ROWS == 20
N == 4

null == "null"

LINE_SCORES == (1 :> 40) @@ (2 :> 100) @@ (3 :> 300) @@ (4 :> 1200)

TETROMINOES ==
  [ I |-> [color |-> "#00d2ff",
           matrix |-> << <<0,0,0,0>>, <<1,1,1,1>>, <<0,0,0,0>>, <<0,0,0,0>> >>],
    O |-> [color |-> "#ffd400",
           matrix |-> << <<0,1,1,0>>, <<0,1,1,0>>, <<0,0,0,0>>, <<0,0,0,0>> >>],
    T |-> [color |-> "#b45cff",
           matrix |-> << <<0,1,0,0>>, <<1,1,1,0>>, <<0,0,0,0>>, <<0,0,0,0>> >>],
    S |-> [color |-> "#1ee37a",
           matrix |-> << <<0,1,1,0>>, <<1,1,0,0>>, <<0,0,0,0>>, <<0,0,0,0>> >>],
    Z |-> [color |-> "#ff4d4d",
           matrix |-> << <<1,1,0,0>>, <<0,1,1,0>>, <<0,0,0,0>>, <<0,0,0,0>> >>],
    J |-> [color |-> "#3b7bff",
           matrix |-> << <<1,0,0,0>>, <<1,1,1,0>>, <<0,0,0,0>>, <<0,0,0,0>> >>],
    L |-> [color |-> "#ff9f1a",
           matrix |-> << <<0,0,1,0>>, <<1,1,1,0>>, <<0,0,0,0>>, <<0,0,0,0>> >>] ]

TYPES == <<"I", "O", "T", "S", "Z", "J", "L">>

InitialDropInterval == 900
MinDropInterval == 90
DropIntervalStep == 70
LinesPerLevel == 10

----------------------------------------------------------------------------
(* Helpers *)

\* makeMatrix(h, w, fill): rows and cells are numbered from 1 here, from 0 in the code
makeMatrix(h, w, fill) == [y \in 1..h |-> [x \in 1..w |-> fill]]

\* `let current = null`: no piece yet
noPiece == [type |-> null, matrix |-> makeMatrix(N, N, 0), color |-> null, x |-> 0, y |-> 0]

\* the cell (y, x) of a matrix, both counted from 0 as in the code
at(m, y, x) == m[y + 1][x + 1]

\* the shuffle with `arr[i] = arr[j]` in place of the swap
RECURSIVE shuffleLoopOverwrites(_, _, _)
shuffleLoopOverwrites(arr, i, js) ==
  IF i > 0
  THEN LET j == js[i]
           written == [k \in 1..Len(arr) |-> IF k = i + 1 THEN arr[j + 1] ELSE arr[k]]
       IN shuffleLoopOverwrites(written, i - 1, js)
  ELSE arr

\* shuffleInPlace(arr) where js[i] is the value Math.floor(Math.random() * (i + 1))
\* draws in the round for index i (i counted from 0 as in the code)
RECURSIVE shuffleLoop(_, _, _)
shuffleLoop(arr, i, js) ==
  IF i > 0
  THEN LET j == js[i]
           swapped == [k \in 1..Len(arr) |->
                         IF k = i + 1 THEN arr[j + 1]
                         ELSE IF k = j + 1 THEN arr[i + 1]
                         ELSE arr[k]]
       IN shuffleLoop(swapped, i - 1, js)
  ELSE arr

shuffleInPlace(arr, js) == shuffleLoop(arr, Len(arr) - 1, js)

\* takeFromBag that refills a bag with one kind left
takeFromBagRefillsAtOne(b, js) ==
  LET filled == IF Len(b) <= 1 THEN shuffleLoop(TYPES, Len(TYPES) - 1, js) ELSE b
  IN [kind |-> filled[Len(filled)], bag |-> SubSeq(filled, 1, Len(filled) - 1)]

\* takeFromBag(): the kind popped and the bag that is left
takeFromBag(b, js) ==
  LET filled == IF Len(b) = 0 THEN shuffleInPlace(TYPES, js) ELSE b
  IN [kind |-> filled[Len(filled)], bag |-> SubSeq(filled, 1, Len(filled) - 1)]

createPiece(type) ==
  [type |-> type,
   matrix |-> TETROMINOES[type].matrix,
   color |-> TETROMINOES[type].color,
   x |-> (COLS \div 2) - 2,
   y |-> -1]

\* collide that tests the walls and the floor but not the cells of the board
collideIgnoresBoard(b, piece) ==
  \E y \in 0..(N - 1), x \in 0..(N - 1) :
     /\ at(piece.matrix, y, x) # 0
     /\ LET bx == piece.x + x
            by == piece.y + y
        IN bx < 0 \/ bx >= COLS \/ by >= ROWS

collide(b, piece) ==
  \E y \in 0..(N - 1), x \in 0..(N - 1) :
     /\ at(piece.matrix, y, x) # 0
     /\ LET bx == piece.x + x
            by == piece.y + y
        IN \/ bx < 0 \/ bx >= COLS \/ by >= ROWS
           \/ (by >= 0 /\ at(b, by, bx) # null)

merge(b, piece) ==
  [r \in 1..ROWS |-> [c \in 1..COLS |->
     LET y == (r - 1) - piece.y
         x == (c - 1) - piece.x
     IN IF y \in 0..(N - 1) /\ x \in 0..(N - 1) /\ at(piece.matrix, y, x) # 0
        THEN piece.color
        ELSE b[r][c]]]

\* the rotation of the upper left 3x3 cells only: row 3 and column 3 are dropped
rotateClockwiseThreeByThree(matrix) ==
  [r \in 1..N |-> [c \in 1..N |->
     IF r = N \/ c = N THEN 0 ELSE at(matrix, (N - 2) - (c - 1), r - 1)]]

\* res[x][N - 1 - y] = matrix[y][x]
rotateClockwise(matrix) ==
  [r \in 1..N |-> [c \in 1..N |-> at(matrix, N - 1 - (c - 1), r - 1)]]

kicks == <<0, -1, 1, -2, 2>>

\* the loop over the kicks, from the i-th on; the piece is reverted when none fits
RECURSIVE kickLoop(_, _, _, _, _)
kickLoop(b, piece, original, ox, i) ==
  IF i > Len(kicks)
  THEN [ok |-> FALSE, piece |-> [piece EXCEPT !.x = ox, !.matrix = original]]
  ELSE LET moved == [piece EXCEPT !.x = ox + kicks[i]]
       IN IF ~collide(b, moved)
          THEN [ok |-> TRUE, piece |-> moved]
          ELSE kickLoop(b, piece, original, ox, i + 1)

\* tryRotate that puts the column back but not the matrix when no kick fits
tryRotateKeepsRotated(b, piece) ==
  LET res == kickLoop(b, [piece EXCEPT !.matrix = rotateClockwise(piece.matrix)],
                      piece.matrix, piece.x, 1)
  IN IF res.ok THEN res
     ELSE [ok |-> FALSE, piece |-> [piece EXCEPT !.matrix = rotateClockwise(piece.matrix)]]

tryRotate(b, piece) ==
  kickLoop(b, [piece EXCEPT !.matrix = rotateClockwise(piece.matrix)],
           piece.matrix, piece.x, 1)

rowFull(row) == \A x \in 1..COLS : row[x] # null

\* the scan without `y++`: the row that moved into place y is not looked at again
RECURSIVE clearLoopNoRecheck(_, _, _)
clearLoopNoRecheck(b, y, cleared) ==
  IF y < 0
  THEN [board |-> b, cleared |-> cleared]
  ELSE IF rowFull(b[y + 1])
       THEN clearLoopNoRecheck(<<[x \in 1..COLS |-> null]>> \o SubSeq(b, 1, y)
                                  \o SubSeq(b, y + 2, ROWS),
                               y - 1, cleared + 1)
       ELSE clearLoopNoRecheck(b, y - 1, cleared)

\* the scan of clearLines from row y upwards: the board and the rows cleared
RECURSIVE clearLoop(_, _, _)
clearLoop(b, y, cleared) ==
  IF y < 0
  THEN [board |-> b, cleared |-> cleared]
  ELSE IF rowFull(b[y + 1])
       THEN clearLoop(<<[x \in 1..COLS |-> null]>> \o SubSeq(b, 1, y) \o SubSeq(b, y + 2, ROWS),
                      y, cleared + 1)
       ELSE clearLoop(b, y - 1, cleared)

\* the line score from a table that ends at three rows
lineScoreUpToThree(cleared, lvl) ==
  (IF cleared \in 1..3 THEN LINE_SCORES[cleared] ELSE 0) * lvl

\* (LINE_SCORES[cleared] || 0) * level
lineScore(cleared, lvl) ==
  (IF cleared \in DOMAIN LINE_SCORES THEN LINE_SCORES[cleared] ELSE 0) * lvl

\* the level counted from 0: without the `+ 1`
levelForFromZero(n) == n \div LinesPerLevel

\* Math.floor(lines / 10) + 1
levelFor(n) == (n \div LinesPerLevel) + 1

\* the drop interval without Math.max(90, ...)
dropIntervalForNoFloor(lvl) == InitialDropInterval - (lvl - 1) * DropIntervalStep

\* Math.max(90, 900 - (level - 1) * 70)
dropIntervalFor(lvl) ==
  LET interval == InitialDropInterval - (lvl - 1) * DropIntervalStep
  IN IF interval > MinDropInterval THEN interval ELSE MinDropInterval

\* clearLines with the score computed after the level was raised
clearLinesScoreAfterLevel(g) ==
  LET res == clearLoop(g.board, ROWS - 1, 0)
      cleared == res.cleared
      newLines == g.lines + cleared
      newLevel == levelFor(newLines)
      add == lineScore(cleared, newLevel)
  IN IF cleared > 0
     THEN [g EXCEPT !.board = res.board,
                    !.lines = newLines,
                    !.score = g.score + add,
                    !.level = newLevel,
                    !.dropInterval = dropIntervalFor(newLevel),
                    !.ev = [@ EXCEPT !.cleared = cleared]]
     ELSE [g EXCEPT !.board = res.board]

\* clearLines() on the game record g
clearLines(g) ==
  LET res == clearLoop(g.board, ROWS - 1, 0)
      cleared == res.cleared
      newLines == g.lines + cleared
      add == lineScore(cleared, g.level)
      newLevel == levelFor(newLines)
  IN IF cleared > 0
     THEN [g EXCEPT !.board = res.board,
                    !.lines = newLines,
                    !.score = g.score + add,
                    !.level = newLevel,
                    !.dropInterval = dropIntervalFor(newLevel),
                    !.ev = [@ EXCEPT !.cleared = cleared]]
     ELSE [g EXCEPT !.board = res.board]

RECURSIVE ghostLoop(_, _)
ghostLoop(b, ghost) ==
  IF ~collide(b, [ghost EXCEPT !.y = ghost.y + 1])
  THEN ghostLoop(b, [ghost EXCEPT !.y = ghost.y + 1])
  ELSE ghost

computeGhost(b, piece) == ghostLoop(b, piece)

\* setGameOver without `running = false`
setGameOverStillRunning(g) ==
  [g EXCEPT !.paused = FALSE, !.gameOver = TRUE, !.ev = [@ EXCEPT !.over = TRUE]]

setGameOver(g) ==
  [g EXCEPT !.running = FALSE, !.paused = FALSE, !.gameOver = TRUE,
            !.ev = [@ EXCEPT !.over = TRUE]]

\* lockPiece without the check of the spawned piece
lockPieceNoSpawnCheck(g, js) ==
  LET merged == [g EXCEPT !.board = merge(g.board, g.current),
                          !.ev = [@ EXCEPT !.locked = TRUE]]
      cleared == clearLines(merged)
      taken == takeFromBag(cleared.bag, js)
  IN [cleared EXCEPT !.current = cleared.next,
                     !.next = createPiece(taken.kind),
                     !.bag = taken.bag,
                     !.drawn = Append(cleared.drawn, taken.kind)]

\* lockPiece without the call of clearLines()
lockPieceWithoutClearLines(g, js) ==
  LET merged == [g EXCEPT !.board = merge(g.board, g.current),
                          !.ev = [@ EXCEPT !.locked = TRUE]]
      taken == takeFromBag(merged.bag, js)
      spawned == [merged EXCEPT !.current = merged.next,
                                !.next = createPiece(taken.kind),
                                !.bag = taken.bag,
                                !.drawn = Append(merged.drawn, taken.kind)]
  IN IF collide(spawned.board, spawned.current) THEN setGameOver(spawned) ELSE spawned

lockPiece(g, js) ==
  LET merged == [g EXCEPT !.board = merge(g.board, g.current),
                          !.ev = [@ EXCEPT !.locked = TRUE]]
      cleared == clearLines(merged)
      taken == takeFromBag(cleared.bag, js)
      spawned == [cleared EXCEPT !.current = cleared.next,
                                 !.next = createPiece(taken.kind),
                                 !.bag = taken.bag,
                                 !.drawn = Append(cleared.drawn, taken.kind)]
  IN IF collide(spawned.board, spawned.current) THEN setGameOver(spawned) ELSE spawned

\* dropOne(): the game after it and whether the piece was locked
dropOne(g, js) ==
  LET down == [g.current EXCEPT !.y = g.current.y + 1]
  IN IF collide(g.board, down)
     THEN [locked |-> TRUE, g |-> lockPiece(g, js)]
     ELSE [locked |-> FALSE, g |-> [g EXCEPT !.current = down]]

RECURSIVE hardDropLoop(_, _, _)
hardDropLoop(b, piece, dist) ==
  IF ~collide(b, [piece EXCEPT !.y = piece.y + 1])
  THEN hardDropLoop(b, [piece EXCEPT !.y = piece.y + 1], dist + 1)
  ELSE [piece |-> piece, dist |-> dist]

\* hardDrop with a bonus of 1 per row
hardDropSingleBonus(g, js) ==
  LET res == hardDropLoop(g.board, g.current, 0)
  IN lockPiece([g EXCEPT !.current = res.piece,
                          !.score = g.score + res.dist,
                          !.ev = [@ EXCEPT !.dist = res.dist]], js)

\* hardDrop that locks only a piece that fell
hardDropLocksOnlyAfterFall(g, js) ==
  LET res == hardDropLoop(g.board, g.current, 0)
  IN IF res.dist = 0 THEN g
     ELSE lockPiece([g EXCEPT !.current = res.piece,
                              !.score = g.score + res.dist * 2,
                              !.ev = [@ EXCEPT !.dist = res.dist]], js)

hardDrop(g, js) ==
  LET res == hardDropLoop(g.board, g.current, 0)
  IN lockPiece([g EXCEPT !.current = res.piece,
                          !.score = g.score + res.dist * 2,
                          !.ev = [@ EXCEPT !.dist = res.dist]], js)

\* softDrop that gives its point also when the piece was locked
softDropAlwaysBonus(g, js) ==
  LET res == dropOne(g, js)
  IN [res.g EXCEPT !.score = res.g.score + 1]

softDrop(g, js) ==
  LET res == dropOne(g, js)
  IN IF ~res.locked THEN [res.g EXCEPT !.score = res.g.score + 1] ELSE res.g

\* update that keeps the time left over instead of `dropCounter = 0`
updateKeepsRemainder(g, delta, js) ==
  IF g.running /\ ~g.paused /\ ~g.gameOver
  THEN LET counted == [g EXCEPT !.dropCounter = g.dropCounter + delta]
       IN IF counted.dropCounter >= counted.dropInterval
          THEN [dropOne(counted, js).g EXCEPT
                   !.dropCounter = counted.dropCounter - counted.dropInterval]
          ELSE counted
  ELSE g

\* update(time) with delta = time - lastTime
update(g, delta, js) ==
  IF g.running /\ ~g.paused /\ ~g.gameOver
  THEN LET counted == [g EXCEPT !.dropCounter = g.dropCounter + delta]
       IN IF counted.dropCounter >= counted.dropInterval
          THEN [dropOne(counted, js).g EXCEPT !.dropCounter = 0]
          ELSE counted
  ELSE g

\* move without the collision test
moveUnchecked(g, dx) == [g EXCEPT !.current = [g.current EXCEPT !.x = g.current.x + dx]]

move(g, dx) ==
  LET moved == [g.current EXCEPT !.x = g.current.x + dx]
  IN IF collide(g.board, moved) THEN g ELSE [g EXCEPT !.current = moved]

\* startNewGame without `bag = []`
startNewGameKeepsBag(g, js) ==
  LET first == takeFromBag(g.bag, js)
      second == takeFromBag(first.bag, js)
  IN [g EXCEPT !.board = makeMatrix(ROWS, COLS, null),
               !.score = 0,
               !.lines = 0,
               !.level = 1,
               !.dropInterval = InitialDropInterval,
               !.bag = second.bag,
               !.drawn = <<first.kind, second.kind>>,
               !.current = createPiece(first.kind),
               !.next = createPiece(second.kind),
               !.running = TRUE,
               !.paused = FALSE,
               !.gameOver = FALSE,
               !.dropCounter = 0]

startNewGame(g, js) ==
  LET first == takeFromBag(<<>>, js)
      second == takeFromBag(first.bag, js)
  IN [g EXCEPT !.board = makeMatrix(ROWS, COLS, null),
               !.score = 0,
               !.lines = 0,
               !.level = 1,
               !.dropInterval = InitialDropInterval,
               !.bag = second.bag,
               !.drawn = <<first.kind, second.kind>>,
               !.current = createPiece(first.kind),
               !.next = createPiece(second.kind),
               !.running = TRUE,
               !.paused = FALSE,
               !.gameOver = FALSE,
               !.dropCounter = 0]

\* togglePause without its guard
togglePauseUnguarded(g) == [g EXCEPT !.paused = ~g.paused]

togglePause(g) ==
  IF ~g.running \/ g.gameOver THEN g ELSE [g EXCEPT !.paused = ~g.paused]

\* onKeyDown without `if (paused) return`
onKeyDownWhilePaused(g, code, repeat, js) ==
  IF ~g.running
  THEN IF code \in {"Space", "Enter"} THEN startNewGame(g, js) ELSE g
  ELSE IF g.gameOver THEN g
  ELSE IF code = "KeyP" THEN togglePause(g)
  ELSE CASE code = "ArrowLeft" -> move(g, -1)
         [] code = "ArrowRight" -> move(g, 1)
         [] code = "ArrowDown" -> softDrop(g, js)
         [] code = "ArrowUp" ->
              IF ~repeat THEN [g EXCEPT !.current = tryRotate(g.board, g.current).piece]
              ELSE g
         [] code = "Space" -> IF ~repeat THEN hardDrop(g, js) ELSE g
         [] OTHER -> g

onKeyDown(g, code, repeat, js) ==
  IF ~g.running
  THEN IF code \in {"Space", "Enter"} THEN startNewGame(g, js) ELSE g
  ELSE IF g.gameOver THEN g
  ELSE IF code = "KeyP" THEN togglePause(g)
  ELSE IF g.paused THEN g
  ELSE CASE code = "ArrowLeft" -> move(g, -1)
         [] code = "ArrowRight" -> move(g, 1)
         [] code = "ArrowDown" -> softDrop(g, js)
         [] code = "ArrowUp" ->
              IF ~repeat THEN [g EXCEPT !.current = tryRotate(g.board, g.current).piece]
              ELSE g
         [] code = "Space" -> IF ~repeat THEN hardDrop(g, js) ELSE g
         [] OTHER -> g

----------------------------------------------------------------------------
(* The inputs: key presses, button clicks, animation frames, random draws *)

NoEv == [locked |-> FALSE, cleared |-> 0, dist |-> 0, over |-> FALSE]

Key(code, repeat) == [op |-> "key", code |-> code, repeat |-> repeat, delta |-> 0]
Click(button) == [op |-> button, code |-> "", repeat |-> FALSE, delta |-> 0]
Frame(delta) == [op |-> "frame", code |-> "", repeat |-> FALSE, delta |-> delta]

\* the frame times tried: one below the largest drop interval, one above it
DeltaShort == 400
DeltaLong == 1000

\* the random indices of one shuffle: js[i] in 0..i for the round of index i
JIdentity == <<1, 2, 3, 4, 5, 6>>
JOLast == <<1, 2, 3, 4, 5, 1>>
RandomDraws == {JIdentity, JOLast}

FreeInputs ==
  {Key(c, FALSE) : c \in {"ArrowLeft", "ArrowRight", "ArrowDown", "ArrowUp",
                          "Space", "KeyP", "Enter", "KeyX"}}
  \cup {Key("ArrowUp", TRUE), Key("Space", TRUE)}
  \cup {Click("startBtn"), Click("pauseBtn")}
  \cup {Frame(DeltaShort), Frame(DeltaLong)}

\* a recorded play, one letter per input: B the start button, U L R D the arrow keys
\* up, left, right and down, H the space bar
Recorded ==
  <<
     "B", "L", "L", "L", "H", "H", "H", "L", "L", "L", "H", "U", "R", "R", "R", "H", "R", "R", "H", "L",
     "L", "H", "R", "R", "H", "U", "L", "L", "L", "L", "L", "H", "R", "H", "U", "R", "R", "R", "H", "U",
     "L", "L", "H", "L", "L", "L", "L", "H", "U", "L", "L", "L", "H", "U", "R", "R", "R", "H", "U", "U",
     "R", "H", "U", "R", "H", "U", "L", "L", "H", "U", "H", "L", "L", "L", "L", "H", "U", "R", "R", "R",
     "R", "H", "R", "R", "R", "H", "U", "U", "L", "L", "L", "L", "H", "U", "L", "H", "R", "R", "R", "H",
     "U", "U", "L", "L", "H", "L", "L", "L", "L", "H", "U", "R", "R", "R", "R", "H", "U", "U", "R", "R",
     "H", "L", "H", "U", "H", "H", "R", "R", "R", "R", "H", "L", "L", "L", "L", "H", "U", "R", "R", "H",
     "U", "U", "L", "H", "U", "U", "H", "U", "R", "H", "U", "L", "L", "L", "L", "H", "U", "R", "H", "H",
     "U", "L", "L", "L", "L", "L", "H", "U", "R", "R", "R", "H", "U", "U", "U", "R", "H", "L", "L", "H",
     "U", "L", "L", "L", "H", "U", "U", "L", "L", "H", "L", "H", "U", "L", "L", "L", "L", "H", "U", "U",
     "U", "R", "R", "R", "R", "R", "H", "U", "L", "L", "L", "H", "R", "H", "U", "H", "U", "U", "U", "R",
     "R", "H", "R", "R", "R", "R", "H", "U", "L", "L", "L", "L", "L", "H", "L", "H", "U", "U", "R", "R",
     "R", "H", "U", "L", "H", "U", "L", "L", "L", "L", "L", "H", "R", "R", "R", "R", "H", "L", "L", "H",
     "U", "L", "L", "L", "L", "H", "U", "U", "R", "R", "R", "H", "U", "U", "U", "L", "H", "U", "L", "H",
     "H", "U", "L", "L", "H", "L", "L", "L", "H", "U", "L", "L", "L", "L", "L", "H", "U", "U", "L", "L",
     "L", "L", "H", "U", "U", "R", "R", "R", "H", "R", "R", "R", "H", "U", "R", "R", "R", "H", "U", "U",
     "U", "R", "R", "R", "R", "R", "H", "R", "R", "H", "U", "L", "L", "L", "L", "L", "H", "U", "L", "L",
     "L", "L", "H", "U", "U", "R", "R", "H", "U", "R", "R", "H", "U", "L", "H", "U", "R", "H", "R", "R",
     "R", "H", "U", "R", "R", "R", "R", "H", "U", "U", "U", "L", "L", "H", "U", "U", "L", "L", "L", "H",
     "U", "H", "U", "L", "L", "H", "U", "U", "H", "L", "L", "L", "H", "U", "L", "L", "L", "L", "L", "H",
     "L", "L", "H", "R", "R", "R", "R", "H", "U", "L", "L", "L", "H", "U", "R", "R", "R", "H", "U", "U",
     "U", "R", "R", "R", "R", "R", "H", "L", "L", "L", "L", "H", "R", "H", "U", "L", "H", "L", "L", "L",
     "H", "R", "R", "H", "R", "R", "R", "R", "H", "R", "R", "H", "R", "R", "R", "H", "L", "H", "U", "U",
     "U", "R", "R", "R", "R", "R", "H", "H", "U", "R", "H", "R", "H", "U", "U", "L", "L", "L", "L", "H",
     "L", "L", "L", "H", "U", "L", "L", "L", "L", "L", "H", "U", "L", "L", "H", "R", "H", "R", "R", "R",
     "R", "H", "U", "R", "R", "R", "H", "R", "R", "H", "L", "L", "L", "H", "L", "H", "U", "U", "L", "L",
     "L", "H", "U", "L", "L", "L", "L", "L", "H", "H", "U", "R", "R", "R", "H", "U", "U", "U", "R", "R",
     "R", "H", "R", "H", "U", "R", "R", "R", "R", "H", "U", "U", "L", "L", "H", "U", "U", "U", "L", "L",
     "L", "H", "R", "R", "R", "H", "R", "H", "U", "U", "U", "R", "R", "R", "R", "H", "L", "L", "H", "U",
     "L", "L", "L", "L", "L", "H", "U", "U", "H", "L", "L", "H", "U", "R", "R", "H", "R", "R", "H", "L",
     "H", "H", "U", "R", "R", "R", "R", "H", "R", "R", "R", "H", "L", "L", "L", "H", "L", "L", "L", "H",
     "R", "R", "R", "H", "U", "U", "U", "L", "H", "H", "U", "R", "R", "R", "R", "H", "U", "U", "R", "R",
     "H", "L", "L", "L", "H", "L", "L", "L", "H", "R", "H", "U", "U", "L", "L", "H", "R", "R", "R", "H",
     "H", "L", "L", "L", "H", "U", "U", "R", "R", "R", "H", "L", "H", "U", "L", "H", "U", "R", "H", "L",
     "L", "L", "L", "H", "L", "L", "L", "H", "U", "R", "R", "R", "H", "U", "R", "R", "H", "U", "H", "H",
     "U", "L", "L", "L", "H", "L", "L", "L", "L", "H", "U", "R", "R", "R", "R", "H", "H", "R", "R", "R",
     "H", "R", "R", "R", "H", "L", "L", "L", "H", "U", "U", "U", "R", "R", "R", "R", "R", "H", "L", "H",
     "U", "H", "U", "U", "L", "L", "L", "L", "H", "R", "R", "R", "H", "R", "R", "R", "H", "U", "R", "R",
     "R", "H", "L", "L", "L", "H", "L", "H", "U", "L", "L", "L", "L", "L", "H", "U", "U", "L", "L", "H",
     "H", "U", "L", "L", "L", "L", "H", "R", "R", "R", "H", "U", "U", "L", "L", "L", "L", "H", "R", "R",
     "R", "H", "U", "R", "R", "R", "R", "H", "R", "H", "H", "H", "U", "H", "L", "L", "L", "H", "L", "H",
     "R", "R", "R", "H", "U", "U", "L", "L", "L", "L", "H", "U", "U", "L", "L", "L", "L", "H", "R", "R",
     "R", "H", "U", "R", "R", "R", "H", "U", "U", "U", "R", "H", "R", "R", "H", "L", "L", "L", "H", "U",
     "U", "U", "R", "R", "R", "R", "R", "H", "L", "L", "L", "H", "L", "H", "R", "R", "R", "H", "U", "U",
     "L", "L", "L", "L", "H", "H", "U", "R", "R", "R", "R", "H", "U", "U", "R", "R", "H", "U", "U", "L",
     "L", "L", "H", "U", "L", "L", "L", "L", "L", "H", "R", "H", "U", "U", "U", "R", "R", "R", "R", "H",
     "L", "H", "U", "L", "L", "L", "L", "L", "H", "U", "U", "U", "L", "L", "H", "R", "R", "H", "L", "H",
     "U", "H", "R", "R", "R", "R", "H", "L", "L", "H", "U", "L", "H", "U", "U", "U", "L", "L", "L", "H",
     "U", "U", "R", "R", "R", "H", "U", "L", "L", "H", "U", "H", "U", "R", "R", "H", "L", "L", "L", "H",
     "U", "R", "R", "R", "R", "H", "U", "L", "L", "L", "H", "U", "L", "L", "L", "L", "L", "H", "R", "R",
     "H", "U", "R", "R", "H", "U", "U", "U", "R", "H", "L", "L", "L", "L", "H", "U", "R", "H", "U", "U",
     "U", "R", "R", "R", "R", "H", "U", "U", "R", "R", "R", "H", "U", "L", "L", "H", "L", "H", "U", "H",
     "L", "L", "L", "L", "H", "U", "R", "R", "R", "R", "H", "U", "U", "L", "L", "H", "U", "U", "U", "R",
     "R", "R", "R", "H", "R", "R", "H", "L", "L", "L", "H", "U", "U", "R", "R", "H", "L", "H", "U", "R",
     "R", "R", "R", "H", "U", "U", "L", "L", "L", "L", "H", "U", "U", "U", "R", "R", "R", "R", "H", "U",
     "H", "H", "U", "L", "L", "L", "H", "L", "L", "L", "L", "H", "H", "U", "L", "L", "L", "L", "L", "H",
     "U", "R", "R", "H", "U", "R", "H", "U", "R", "R", "R", "H", "H", "L", "L", "L", "H", "U", "L", "L",
     "H", "U", "U", "U", "R", "H", "U", "U", "U", "L", "L", "H", "U", "R", "H", "U", "R", "R", "R", "H",
     "U", "L", "L", "L", "L", "L", "H", "R", "H", "U", "L", "H", "U", "U", "L", "L", "L", "H", "U", "U",
     "R", "R", "R", "H", "U", "L", "L", "L", "L", "L", "H", "L", "H", "R", "R", "R", "R", "H", "R", "H",
     "H", "U", "U", "R", "R", "R", "H", "U", "L", "L", "L", "H", "U", "L", "L", "L", "L", "L", "H", "U",
     "R", "R", "R", "H", "U", "L", "L", "L", "L", "L", "H", "L", "L", "H", "R", "H", "U", "U", "U", "H",
     "R", "R", "H", "R", "R", "H", "U", "R", "R", "R", "H", "U", "U", "L", "L", "L", "L", "H", "L", "L",
     "L", "L", "H", "U", "R", "R", "H", "U", "U", "U", "R", "R", "R", "R", "R", "H", "U", "U", "L", "L",
     "H", "U", "H", "L", "H", "U", "R", "R", "R", "H", "R", "R", "H", "U", "H", "L", "L", "L", "H", "U",
     "U", "U", "H", "R", "R", "H", "L", "L", "L", "H", "U", "U", "U", "R", "R", "R", "R", "R", "H", "L",
     "L", "L", "H", "U", "L", "L", "H", "U", "U", "U", "R", "R", "R", "R", "H", "U", "L", "L", "L", "L",
     "L", "H", "U", "L", "L", "L", "H", "U", "R", "R", "R", "H", "R", "H", "L", "L", "L", "L", "H", "U",
     "L", "H", "U", "R", "H", "U", "R", "R", "H", "U", "L", "L", "L", "H", "L", "L", "L", "H", "U", "L",
     "L", "L", "L", "L", "H", "L", "L", "H", "U", "R", "R", "R", "R", "H", "U", "U", "U", "R", "H", "H",
     "H", "H", "H", "H", "H", "H", "H", "H", "H", "H", "U", "R", "R", "H", "L", "L", "L", "H",
     "D", "D", "D", "D", "D", "D", "D", "D", "D", "D", "D", "D", "D", "D", "D", "D", "D", "D", "U", "D"
  >>

decode(letter) ==
  CASE letter = "B" -> Click("startBtn")
    [] letter = "U" -> Key("ArrowUp", FALSE)
    [] letter = "L" -> Key("ArrowLeft", FALSE)
    [] letter = "R" -> Key("ArrowRight", FALSE)
    [] letter = "H" -> Key("Space", FALSE)
    [] letter = "D" -> Key("ArrowDown", FALSE)

Script == [i \in 1..Len(Recorded) |-> decode(Recorded[i])]

\* the points of the recorded play from which inputs are also chosen freely
Cuts == {0, 1, 81, 115, 206, 1318, 1407, 1408, 1418}

\* the number of freely chosen inputs after a cut
MaxFree == 4

Offered ==
  (IF free = 0 /\ pc < Len(Script)
   THEN {[input |-> Script[pc + 1], js |-> JIdentity, scripted |-> TRUE]}
   ELSE {})
  \cup (IF pc \in Cuts /\ free < MaxFree
        THEN {o \in [input : FreeInputs, js : RandomDraws, scripted : {FALSE}] :
                 \* the random draws only matter to a handler that can shuffle
                 o.js = JIdentity \/ Len(bag) = 0 \/ ~running \/ o.input.op = "startBtn"}
        ELSE {})

Env(o) ==
  /\ last' = o.input
  /\ pc' = IF o.scripted THEN pc + 1 ELSE pc
  /\ free' = IF o.scripted THEN free ELSE free + 1

----------------------------------------------------------------------------
(* The state machine *)

\* the game as the handlers find it; `ev` starts empty in every handler
Game ==
  [board |-> board, current |-> current, next |-> next,
   score |-> score, lines |-> lines, level |-> level,
   running |-> running, paused |-> paused, gameOver |-> gameOver,
   dropCounter |-> dropCounter, dropInterval |-> dropInterval, bag |-> bag,
   drawn |-> drawn, ev |-> NoEv]

Becomes(g) ==
  /\ board' = g.board /\ current' = g.current /\ next' = g.next
  /\ score' = g.score /\ lines' = g.lines /\ level' = g.level
  /\ running' = g.running /\ paused' = g.paused /\ gameOver' = g.gameOver
  /\ dropCounter' = g.dropCounter /\ dropInterval' = g.dropInterval /\ bag' = g.bag
  /\ drawn' = g.drawn
  /\ ev' = g.ev

Init ==
  /\ board = makeMatrix(ROWS, COLS, null)
  /\ current = noPiece
  /\ next = noPiece
  /\ score = 0 /\ lines = 0 /\ level = 1
  /\ running = FALSE /\ paused = FALSE /\ gameOver = FALSE
  /\ dropCounter = 0
  /\ dropInterval = InitialDropInterval
  /\ bag = <<>>
  /\ drawn = <<>>
  /\ ev = NoEv
  /\ last = Click("none")
  /\ pc = 0
  /\ free = 0

\* document.addEventListener('keydown', onKeyDown), for the offered key press o
KeyDown(o, code) ==
  /\ o.input.op = "key" /\ o.input.code = code
  /\ Becomes(onKeyDown(Game, code, o.input.repeat, o.js))
  /\ Env(o)

ArrowLeft == \E o \in Offered : KeyDown(o, "ArrowLeft")
ArrowRight == \E o \in Offered : KeyDown(o, "ArrowRight")
ArrowDown == \E o \in Offered : KeyDown(o, "ArrowDown")
ArrowUp == \E o \in Offered : KeyDown(o, "ArrowUp")
Space == \E o \in Offered : KeyDown(o, "Space")
KeyP == \E o \in Offered : KeyDown(o, "KeyP")
Enter == \E o \in Offered : KeyDown(o, "Enter")
KeyX == \E o \in Offered : KeyDown(o, "KeyX")

\* startBtn and restartBtn: click -> startNewGame()
StartClick ==
  \E o \in Offered :
     /\ o.input.op = "startBtn"
     /\ Becomes(startNewGame(Game, o.js))
     /\ Env(o)

\* pauseBtn: click -> togglePause()
PauseClick ==
  \E o \in Offered :
     /\ o.input.op = "pauseBtn"
     /\ Becomes(togglePause(Game))
     /\ Env(o)

\* requestAnimationFrame(update)
AnimationFrame ==
  \E o \in Offered :
     /\ o.input.op = "frame"
     /\ Becomes(update(Game, o.input.delta, o.js))
     /\ Env(o)

Next ==
  \/ ArrowLeft \/ ArrowRight \/ ArrowDown \/ ArrowUp \/ Space \/ KeyP \/ Enter \/ KeyX
  \/ StartClick \/ PauseClick \/ AnimationFrame

Spec == Init /\ [][Next]_vars

----------------------------------------------------------------------------
(* clearLines() on the boards of a bounded set *)

\* the rows the boards are made of: empty, full, all but the first cell, only the
\* last cell
EmptyRow == [c \in 1..COLS |-> null]
FullRow == [c \in 1..COLS |-> IF c % 2 = 0 THEN "#00d2ff" ELSE "#ffd400"]
GapLeftRow == [c \in 1..COLS |-> IF c = 1 THEN null ELSE "#b45cff"]
OnlyRightRow == [c \in 1..COLS |-> IF c = COLS THEN "#1ee37a" ELSE null]
RowPatterns == {EmptyRow, FullRow, GapLeftRow, OnlyRightRow}

\* the number of rows of a board that are not left empty
BandRows == 5

\* the boards with a band of BandRows rows, each of any pattern, at any height
TestBoards ==
  {[r \in 1..ROWS |-> IF r > top /\ r <= top + BandRows THEN band[r - top] ELSE EmptyRow] :
      top \in 0..(ROWS - BandRows), band \in [1..BandRows -> RowPatterns]}

ClearInit ==
  /\ board \in TestBoards
  /\ current = createPiece("T")
  /\ next = createPiece("I")
  /\ score = 0 /\ lines = 0 /\ level = 1
  /\ running = TRUE /\ paused = FALSE /\ gameOver = FALSE
  /\ dropCounter = 0
  /\ dropInterval = InitialDropInterval
  /\ bag = <<>>
  /\ drawn = <<>>
  /\ ev = NoEv
  /\ last = Click("none")
  /\ pc = 0
  /\ free = 0

\* one call of clearLines()
ClearFullLines ==
  /\ last = Click("none")
  /\ Becomes(clearLines(Game))
  /\ last' = Click("clearLines")
  /\ UNCHANGED <<pc, free>>

ClearNext == ClearFullLines

SpecClear == ClearInit /\ [][ClearNext]_vars

----------------------------------------------------------------------------
(* takeFromBag() alone: the draws from a reset on *)

\* every outcome of the six random indices of one shuffle: js[i] in 0..i
AllDraws ==
  {<<a, b, c, d, e, f>> :
      a \in 0..1, b \in 0..2, c \in 0..3, d \in 0..4, e \in 0..5, f \in 0..6}

\* the number of draws followed from a reset
MaxDraws == 14

\* the shuffles tried for the refill after n earlier refills: all of them for the
\* second bag, two for the others
ShufflesAt(n) == IF n = 1 THEN AllDraws ELSE RandomDraws

\* the state after construction: `let bag = []`
BagInit == Init

\* one call of takeFromBag()
BagDraw ==
  /\ Len(drawn) < MaxDraws
  /\ \E js \in (IF Len(bag) = 0 THEN ShufflesAt(Len(drawn) \div Len(TYPES)) ELSE {JIdentity}) :
        LET taken == takeFromBag(bag, js)
        IN /\ bag' = taken.bag
           /\ drawn' = Append(drawn, taken.kind)
  /\ UNCHANGED <<board, current, next, score, lines, level, running, paused, gameOver,
                 dropCounter, dropInterval, ev, last, pc, free>>

\* `bag = []` of startNewGame: the reset
BagReset ==
  /\ drawn # <<>>
  /\ bag' = <<>>
  /\ drawn' = <<>>
  /\ UNCHANGED <<board, current, next, score, lines, level, running, paused, gameOver,
                 dropCounter, dropInterval, ev, last, pc, free>>

BagNext == BagDraw \/ BagReset

SpecBag == BagInit /\ [][BagNext]_vars

----------------------------------------------------------------------------
(* The states of the engine, and the commands as the inputs that issue them *)

InIdle == ~running /\ ~gameOver
InRunning == running /\ ~paused /\ ~gameOver
InPaused == running /\ paused /\ ~gameOver
InGameOver == gameOver

IsKey(i, code) == i.op = "key" /\ i.code = code

\* move-left, move-right, rotate, soft-drop, hard-drop, advance-time
IsPlayCommand(i) ==
  \/ i.op = "frame"
  \/ i.op = "key" /\ i.code \in {"ArrowLeft", "ArrowRight", "ArrowUp", "ArrowDown", "Space"}

IsPauseToggle(i) == i.op = "pauseBtn" \/ IsKey(i, "KeyP")

\* the inputs that call startNewGame() in the state they arrive in
IsStart(i) == i.op = "startBtn" \/ (~running /\ i.op = "key" /\ i.code \in {"Space", "Enter"})

EmptyBoard == [r \in 1..ROWS |-> [c \in 1..COLS |-> null]]

\* the state a new game starts in, for some outcome of the shuffle
FreshGame ==
  /\ board' = EmptyBoard
  /\ score' = 0 /\ lines' = 0 /\ level' = 1
  /\ dropInterval' = 900 /\ dropCounter' = 0
  /\ running' /\ ~paused' /\ ~gameOver'
  /\ \E js \in RandomDraws :
        LET perm == shuffleInPlace(TYPES, js)
            spawn(kind) == [type |-> kind, matrix |-> TETROMINOES[kind].matrix,
                            color |-> TETROMINOES[kind].color, x |-> 3, y |-> -1]
        IN /\ Len(perm) = 7 /\ {perm[k] : k \in 1..7} = {"I", "O", "T", "S", "Z", "J", "L"}
           /\ current' = spawn(perm[7])
           /\ next' = spawn(perm[6])
           /\ bag' = SubSeq(perm, 1, 5)

\* the input received in this step locks the current piece
LockDue ==
  /\ InRunning
  /\ LET down == [current EXCEPT !.y = current.y + 1]
     IN \/ last' = Key("Space", FALSE)
        \/ IsKey(last', "ArrowDown") /\ collide(board, down)
        \/ /\ last'.op = "frame"
           /\ dropCounter + last'.delta >= dropInterval
           /\ collide(board, down)

----------------------------------------------------------------------------
(* C1 *)

\* C1 as stated: outside Running each of move-left, move-right, rotate, soft-drop,
\* hard-drop and advance-time leaves the whole game state unchanged.
C1_PlayCommandsIgnoredOutsideRunning ==
  [][(~InRunning /\ IsPlayCommand(last')) => UNCHANGED gameVars]_vars

\* C1 as amended: in Paused all six commands are ignored; in Idle and GameOver
\* move-left, move-right, rotate, soft-drop and advance-time are ignored and neither
\* lock nor clear anything, while the hard-drop key (Space) starts a new game there.
C1_PlayCommandsIgnoredExceptQuickStart ==
  [][/\ (~InRunning /\ IsPlayCommand(last') /\ ~(~running /\ IsKey(last', "Space")))
          => (UNCHANGED gameVars /\ ev' = NoEv)
     /\ (~running /\ IsKey(last', "Space")) => FreshGame]_vars

\* soft-drop arrived in GameOver and did nothing
C1_Witness ==
  /\ InGameOver /\ last = Key("ArrowDown", FALSE) /\ ~ev.locked
  /\ current # noPiece

----------------------------------------------------------------------------
(* C2 *)

\* C2: every lock (soft-drop, hard-drop, gravity) makes the old next piece the
\* current one, at its spawn position, and draws the new next piece from the bag; the
\* engine is in GameOver right after the lock exactly when that new current piece
\* collides with the board; and GameOver is entered by no step other than a lock.
C2_LockPromotesAndDecidesGameOver ==
  [][/\ ev'.locked <=> LockDue
     /\ LockDue =>
          /\ current' = next
          /\ current'.x = 3 /\ current'.y = -1
          /\ current'.matrix = TETROMINOES[current'.type].matrix
          /\ \E js \in RandomDraws :
                LET filled == IF bag = <<>> THEN shuffleInPlace(TYPES, js) ELSE bag
                IN /\ next'.type = filled[Len(filled)]
                   /\ next' = [type |-> next'.type,
                               matrix |-> TETROMINOES[next'.type].matrix,
                               color |-> TETROMINOES[next'.type].color, x |-> 3, y |-> -1]
                   /\ bag' = SubSeq(filled, 1, Len(filled) - 1)
          /\ gameOver' <=> collide(board', current')
          /\ gameOver' <=> ev'.over
     /\ (gameOver' /\ ~gameOver) => LockDue]_vars

\* a lock after which the spawned piece collides: the game just ended
C2_Witness == ev.locked /\ ev.over /\ gameOver /\ collide(board, current)

----------------------------------------------------------------------------
(* C3 *)

IsNonStartCommand(i) ==
  \/ i.op \in {"frame", "pauseBtn"}
  \/ i.op = "key" /\ i.code \in {"ArrowLeft", "ArrowRight", "ArrowUp", "ArrowDown",
                                 "Space", "KeyP"}

\* C3 as stated: in GameOver every tick, move, rotation, drop and pause toggle
\* leaves the game state as it is.
C3_GameOverFrozenUnderAllPlayCommands ==
  [][(InGameOver /\ IsNonStartCommand(last')) => UNCHANGED gameVars]_vars

\* C3 as amended: in GameOver the engine is not running and not paused; ticks, moves,
\* rotations, soft drops and pause toggles leave the game state as it is; the state
\* changes only by startNewGame(), which the start button, Enter and also the
\* hard-drop key (Space) call there, and which leads to Running.
C3_GameOverLeftOnlyByNewGame ==
  /\ [](InGameOver => (~running /\ ~paused))
  /\ [][/\ (InGameOver /\ IsNonStartCommand(last') /\ ~IsKey(last', "Space"))
             => UNCHANGED gameVars
        /\ (InGameOver /\ ~UNCHANGED gameVars)
             => (IsStart(last') /\ FreshGame /\ InRunning')]_vars

\* a frame arrived in GameOver and did nothing
C3_Witness ==
  /\ InGameOver /\ last = Frame(DeltaLong) /\ ~ev.locked
  /\ board # EmptyBoard

----------------------------------------------------------------------------
(* C4 *)

\* C4: a pause toggle in Running or Paused flips `paused` and changes nothing else;
\* in Idle and GameOver it changes nothing; the engine is never paused unless a
\* game is running.
C4_PauseToggle ==
  /\ [](paused => (running /\ ~gameOver))
  /\ [][IsPauseToggle(last') =>
          IF running /\ ~gameOver
          THEN /\ paused' = ~paused
               /\ UNCHANGED <<board, current, next, score, lines, level,
                              running, gameOver, dropCounter, dropInterval, bag>>
          ELSE UNCHANGED gameVars]_vars

\* the game was paused by the key with time on the drop timer
C4_Witness == InPaused /\ last = Key("KeyP", FALSE) /\ dropCounter > 0

----------------------------------------------------------------------------
(* C5 *)

\* C5: startNewGame(), from whichever state, leaves an empty 20x10 board, score 0,
\* lines 0, level 1, drop interval 900, drop timer 0, running and neither paused nor
\* over, and as current and next piece the first two draws of an emptied bag, each
\* the unrotated template at column 3, row -1.
C5_StartNewGame ==
  /\ ROWS = 20 /\ COLS = 10 /\ (COLS \div 2) - 2 = 3
  /\ [][IsStart(last') => FreshGame]_vars

\* a new game was started with the button from a state with pieces on the board
C5_Witness ==
  /\ last = Click("startBtn") /\ free = 1 /\ pc = 1318
  /\ InRunning /\ board = EmptyBoard /\ score = 0 /\ Len(bag) = 5

----------------------------------------------------------------------------
(* C6 *)

\* C6: in every reachable state level = floor(lines / 10) + 1.
C6_LevelFromLines == level = (lines \div 10) + 1

\* a lock that cleared rows and took the game to a higher level
C6_Witness == ev.locked /\ ev.cleared > 0 /\ lines >= 20 /\ level >= 3

----------------------------------------------------------------------------
(* C7 *)

Max(a, b) == IF a >= b THEN a ELSE b

\* C7: in every reachable state dropInterval = max(90, 900 - (level - 1) * 70);
\* it is never below 90, and no step other than the start of a new game raises it.
C7_DropIntervalFromLevel ==
  /\ [](dropInterval = Max(90, 900 - (level - 1) * 70))
  /\ [](dropInterval >= 90)
  /\ [][~IsStart(last') => dropInterval' <= dropInterval]_vars

\* the level at which 900 - (level - 1) * 70 falls below the floor of 90
C7_Witness == level = 13 /\ dropInterval = 90 /\ 900 - (level - 1) * 70 < 90 /\ InRunning

----------------------------------------------------------------------------
(* C8 *)

\* the rows of a board in which every cell is occupied
FullRows(b) == {r \in 1..ROWS : \A c \in 1..COLS : b[r][c] # null}

\* where the piece is when this step locks it, and the hard-drop bonus it earns
Landing == IF IsKey(last', "Space") THEN computeGhost(board, current) ELSE current
DropBonus == IF IsKey(last', "Space") THEN 2 * (ghostLoop(board, current).y - current.y) ELSE 0

LineScoreTable == (1 :> 40) @@ (2 :> 100) @@ (3 :> 300) @@ (4 :> 1200)

\* C8: a lock that completes n rows, 1 <= n <= 4, adds n to lines and adds
\* T[n] * level to the score, with the level as it was before the lock; a lock that
\* completes no row leaves lines, level and dropInterval alone and adds no line
\* score.  (The score of the step also holds the hard-drop bonus.)
C8_LineClearScoring ==
  [][LockDue =>
       \A landed \in {Landing} :
       \A n \in {Cardinality(FullRows(merge(board, landed)))} :
          /\ ev'.cleared = n
          /\ lines' = lines + n
          /\ n \in 1..4 => score' = score + DropBonus + LineScoreTable[n] * level
          /\ n = 0 => /\ score' = score + DropBonus
                      /\ level' = level
                      /\ dropInterval' = dropInterval]_vars

\* a lock cleared two rows and raised the level, so the levels before and after differ
C8_Witness == ev.locked /\ ev.cleared = 2 /\ lines = 10 /\ level = 2 /\ score > 200

----------------------------------------------------------------------------
(* C9 *)

OPieceAtSpawn ==
  [type |-> "O", matrix |-> << <<0,1,1,0>>, <<0,1,1,0>>, <<0,0,0,0>>, <<0,0,0,0>> >>,
   color |-> "#ffd400", x |-> 3, y |-> -1]

\* the O-piece in rows 18 and 19, columns 4 and 5 (counted from 0), nothing else
OPieceLanded ==
  [r \in 1..ROWS |-> [c \in 1..COLS |->
     IF r \in {19, 20} /\ c \in {5, 6} THEN "#ffd400" ELSE null]]

HardDropOfOOnEmptyBoard ==
  /\ InRunning /\ board = EmptyBoard /\ current = OPieceAtSpawn
  /\ last' = Key("Space", FALSE)

\* C9 as stated: the hard drop of an O-piece from its spawn position on the empty
\* board locks it in rows 18 and 19, columns 4 and 5, clears no line and adds
\* (ROWS - 1 - spawnRow) * 2 = 40 to the score.
C9_HardDropOfO_AsStated ==
  [][HardDropOfOOnEmptyBoard =>
       /\ board' = OPieceLanded /\ lines' = lines /\ ev'.cleared = 0
       /\ score' = score + (ROWS - 1 - (-1)) * 2]_vars

\* C9 as amended: the same, but the score grows by 2 for each of the 19 rows the
\* piece falls, from row -1 to row 18: (ROWS - 2 - spawnRow) * 2 = 38.
C9_HardDropOfO ==
  [][HardDropOfOOnEmptyBoard =>
       /\ board' = OPieceLanded /\ lines' = lines /\ ev'.cleared = 0
       /\ score' = score + (ROWS - 2 - (-1)) * 2
       /\ score' = score + 38]_vars

\* the first piece of a game was an O and was hard-dropped at once
C9_Witness ==
  /\ last = Key("Space", FALSE) /\ ev.locked /\ ev.dist = 19
  /\ board = OPieceLanded /\ score = 38 /\ lines = 0

----------------------------------------------------------------------------
(* C10 *)

\* C10: a hard drop in Running takes the piece, column and shape unchanged, down by
\* the largest s >= 0 such that it collides at none of the s rows it passes and
\* comes to rest on; that place is the one computeGhost reports; the score grows by
\* 2 * s (and by the line score); and the piece is locked there, also when s = 0.
C10_HardDrop ==
  [][(InRunning /\ last' = Key("Space", FALSE)) =>
       \A ghost \in {computeGhost(board, current)} :
       \A s \in {ghost.y - current.y} :
       \A landed \in {merge(board, [current EXCEPT !.y = current.y + s])} :
       \A n \in {Cardinality(FullRows(landed))} :
          /\ s >= 0
          /\ ghost = [current EXCEPT !.y = current.y + s]
          /\ \A k \in 0..s : ~collide(board, [current EXCEPT !.y = current.y + k])
          /\ collide(board, [current EXCEPT !.y = current.y + s + 1])
          /\ ev'.locked /\ ev'.dist = s
          /\ board' = clearLoop(landed, ROWS - 1, 0).board
          /\ \A r \in 1..ROWS, c \in 1..COLS :
                (n = 0 /\ board[r][c] = null /\ board'[r][c] # null)
                   => /\ (r - 1) - (current.y + s) \in 0..3
                      /\ (c - 1) - current.x \in 0..3
                      /\ at(current.matrix, (r - 1) - (current.y + s), (c - 1) - current.x) = 1
          /\ score' = score + 2 * s + (IF n \in 1..4 THEN LineScoreTable[n] * level ELSE 0)
          /\ current' = next]_vars

\* a hard drop of a piece that already rested on the stack: it fell 0 rows and locked
C10_Witness ==
  /\ last = Key("Space", FALSE) /\ ev.locked /\ ev.dist = 0
  /\ board # EmptyBoard

----------------------------------------------------------------------------
(* C11 *)

IsFullRow(row) == \A c \in 1..COLS : row[c] # null

\* a board without its full rows: as many empty rows on top, the other rows below
\* them in their order
Compacted(b) ==
  LET kept == SelectSeq(b, LAMBDA row : ~IsFullRow(row))
  IN [i \in 1..(Len(b) - Len(kept)) |-> [c \in 1..COLS |-> null]] \o kept

LineScoreOf(n, lvl) == IF n \in 1..4 THEN LineScoreTable[n] * lvl ELSE 0

\* C11: a soft drop in Running either moves the piece down one row and adds 1 to the
\* score, touching nothing else, when the row below is free; or, when the piece
\* would collide one row down, locks it where it is and adds the line score only,
\* no soft-drop point.  Which of the two happens is decided by the collision alone.
C11_SoftDrop ==
  [][(InRunning /\ IsKey(last', "ArrowDown")) =>
       \A down \in {[current EXCEPT !.y = current.y + 1]} :
          IF ~collide(board, down)
          THEN /\ current' = down
               /\ score' = score + 1
               /\ ~ev'.locked
               /\ UNCHANGED <<board, next, lines, level, bag, drawn>>
          ELSE \A landed \in {merge(board, current)} :
               \A n \in {Cardinality(FullRows(landed))} :
                  /\ ev'.locked
                  /\ board' = Compacted(landed)
                  /\ score' = score + LineScoreOf(n, level)
                  /\ lines' = lines + n
                  /\ current' = next]_vars

\* a piece that rested on the stack was locked by a soft drop, which gave no point
C11_Witness ==
  /\ last = Key("ArrowDown", FALSE) /\ ev.locked /\ ev.cleared = 0
  /\ pc = Len(Script) /\ free = 0 /\ score = 130

----------------------------------------------------------------------------
(* C12 *)

\* C12: a frame in Running adds its time to dropCounter.  If the sum reaches
\* dropInterval, the piece takes one gravity step, however long the frame was: it
\* moves down one row, or is locked if it would collide; the score gets no drop
\* point, one piece at most is locked and drawn, and dropCounter is 0 afterwards.
\* Otherwise nothing but dropCounter changes.
C12_AdvanceTime ==
  [][(InRunning /\ last'.op = "frame") =>
       \A total \in {dropCounter + last'.delta} :
       \A down \in {[current EXCEPT !.y = current.y + 1]} :
          IF total < dropInterval
          THEN /\ dropCounter' = total
               /\ ~ev'.locked
               /\ UNCHANGED <<board, current, next, score, lines, level,
                              running, paused, gameOver, dropInterval, bag, drawn>>
          ELSE /\ dropCounter' = 0
               /\ IF ~collide(board, down)
                  THEN /\ current' = down
                       /\ ~ev'.locked
                       /\ UNCHANGED <<board, next, score, lines, level,
                                      running, paused, gameOver, dropInterval, bag, drawn>>
                  ELSE \A landed \in {merge(board, current)} :
                       \A n \in {Cardinality(FullRows(landed))} :
                          /\ ev'.locked
                          /\ board' = Compacted(landed)
                          /\ score' = score + LineScoreOf(n, level)
                          /\ current' = next
                          /\ Len(drawn') = Len(drawn) + 1]_vars

\* a frame of more than eleven drop intervals locked one piece
C12_Witness ==
  /\ last = Frame(DeltaLong) /\ ev.locked /\ dropCounter = 0
  /\ dropInterval = 90 /\ DeltaLong > 11 * dropInterval

----------------------------------------------------------------------------
(* C13 *)

\* C13: a move by d = -1 (ArrowLeft) or d = +1 (ArrowRight) in Running leaves the
\* piece exactly as it was if it would collide d columns aside, and otherwise
\* changes its column by d and neither its row nor its shape; board, score, lines
\* and level stay as they are, and so does everything else.
C13_MoveHorizontal ==
  [][(InRunning /\ (IsKey(last', "ArrowLeft") \/ IsKey(last', "ArrowRight"))) =>
       \A d \in {IF IsKey(last', "ArrowLeft") THEN -1 ELSE 1} :
          /\ IF collide(board, [current EXCEPT !.x = current.x + d])
             THEN current' = current
             ELSE /\ current'.x = current.x + d
                  /\ current'.y = current.y
                  /\ current'.matrix = current.matrix
                  /\ current'.type = current.type /\ current'.color = current.color
          /\ UNCHANGED <<board, score, lines, level>>
          /\ UNCHANGED <<next, running, paused, gameOver, dropCounter, dropInterval,
                         bag, drawn>>]_vars

\* a piece at the right wall was moved right and stayed
C13_Witness ==
  /\ pc = 81 /\ free = 1 /\ last = Key("ArrowRight", FALSE)
  /\ InRunning /\ current.x = 7
  /\ collide(board, [current EXCEPT !.x = current.x + 1])

----------------------------------------------------------------------------
(* C14 *)

KickOrder == <<0, -1, 1, -2, 2>>

\* the quarter turn clockwise of a 4x4 shape: the cell (y, x) goes to (x, 3 - y)
QuarterTurn(m) == [r \in 1..4 |-> [c \in 1..4 |-> m[5 - c][r]]]

\* C14: a rotation in Running turns the shape a quarter clockwise and tries it at
\* the columns x, x - 1, x + 1, x - 2, x + 2 in this order.  The piece gets the
\* turned shape at the first of them where it does not collide, its row unchanged;
\* if it collides at all five, tryRotate reports failure and shape, column and row
\* are as before.  Nothing but the piece changes.
C14_Rotate ==
  [][(InRunning /\ last' = Key("ArrowUp", FALSE)) =>
       \A turned \in {QuarterTurn(current.matrix)} :
       \A fits \in {{k \in 1..5 :
                      ~collide(board, [current EXCEPT !.matrix = turned,
                                                      !.x = current.x + KickOrder[k]])}} :
          /\ tryRotate(board, current).ok <=> fits # {}
          /\ \A k \in fits :
                (\A j \in fits : k <= j) =>
                   current' = [current EXCEPT !.matrix = turned,
                                              !.x = current.x + KickOrder[k]]
          /\ fits = {} => current' = current
          /\ current'.y = current.y
          /\ UNCHANGED <<board, score>>
          /\ UNCHANGED <<next, lines, level, running, paused, gameOver, dropCounter,
                         dropInterval, bag, drawn>>]_vars

\* the S-piece lying on the stack could not be turned at any of the five columns
C14_Witness ==
  /\ pc = Len(Script) - 1 /\ free = 0 /\ last = Key("ArrowUp", FALSE)
  /\ InRunning /\ current.type = "S" /\ current.matrix = TETROMINOES["S"].matrix
  /\ ~tryRotate(board, current).ok

----------------------------------------------------------------------------
(* C15 *)

RECURSIVE Turns(_, _)
Turns(m, k) == IF k = 0 THEN m ELSE Turns(rotateClockwise(m), k - 1)

\* four quarter turns of each kind's matrix in each of its four rotation states
EveryShapeRestored ==
  \A kind \in {"I", "O", "T", "S", "Z", "J", "L"}, k \in 0..3 :
     \A m \in {Turns(TETROMINOES[kind].matrix, k)} : Turns(m, 4) = m

\* the current piece after four calls of tryRotate in a row, if all four succeed
FourRotations ==
  LET r1 == tryRotate(board, current)
      r2 == tryRotate(board, r1.piece)
      r3 == tryRotate(board, r2.piece)
      r4 == tryRotate(board, r3.piece)
  IN [ok |-> r1.ok /\ r2.ok /\ r3.ok /\ r4.ok, piece |-> r4.piece]

\* C15: for each of the seven kinds and each of its rotation states, four quarter
\* turns give back the same 4x4 matrix; and in every state of a running game, four
\* calls of tryRotate in a row that all succeed leave the matrix of the current
\* piece as it was.
C15_FourRotationsRestoreShape ==
  /\ EveryShapeRestored
  /\ InRunning =>
        \A four \in {FourRotations} : four.ok => four.piece.matrix = current.matrix

\* the L-piece was turned four times in a row and has its first shape again
C15_Witness ==
  /\ pc = 1 /\ free = 4 /\ last = Key("ArrowUp", FALSE) /\ InRunning
  /\ current.type = "L" /\ current.matrix = TETROMINOES["L"].matrix
  /\ FourRotations.ok

----------------------------------------------------------------------------
(* C19 *)

\* the cells a piece occupies, as <<row, column>>, both counted from 0
Cells(piece) ==
  {<<piece.y + y, piece.x + x>> : <<y, x>> \in
      {q \in (0..3) \X (0..3) : piece.matrix[q[1] + 1][q[2] + 1] # 0}}

Occupied(b) == {<<r, c>> \in (1..ROWS) \X (1..COLS) : b[r][c] # null}

\* C19: while a game is running, paused or not, every cell of the current piece is
\* in a column 0..COLS-1 and a row below ROWS, and is empty on the board if its row
\* is 0 or more.  So a lock adds the cells of the piece to the board and overwrites
\* none: the occupied cells grow by the piece's cells on the board, less the
\* cleared rows.
C19_CurrentPieceNeverCollides ==
  /\ []((InRunning \/ InPaused) =>
          /\ Cardinality(Cells(current)) = 4
          /\ \A cell \in Cells(current) :
                /\ cell[2] >= 0 /\ cell[2] < COLS /\ cell[1] < ROWS
                /\ cell[1] >= 0 => board[cell[1] + 1][cell[2] + 1] = null)
  /\ [][ev'.locked =>
          \A landed \in {Landing} :
             /\ \A cell \in Cells(landed) :
                   cell[1] >= 0 => board[cell[1] + 1][cell[2] + 1] = null
             /\ Cardinality(Occupied(board')) =
                   Cardinality(Occupied(board))
                   + Cardinality({cell \in Cells(landed) : cell[1] >= 0})
                   - COLS * ev'.cleared]_vars

\* a turned piece lies right beside a cell of the stack while the game is paused
C19_Witness ==
  /\ InPaused /\ board # EmptyBoard /\ current.matrix # TETROMINOES[current.type].matrix
  /\ \E cell \in Cells(current) :
        cell[1] >= 0 /\ cell[2] + 1 < COLS /\ board[cell[1] + 1][cell[2] + 2] # null

----------------------------------------------------------------------------
(* C20 *)

\* C20: no lock clears more than four rows, so LINE_SCORES has an entry for every
\* count of cleared rows that occurs, and a lock that clears a row or more adds a
\* line score above 0: the entry of the table times the level.
C20_AtMostFourRowsPerLock ==
  /\ [](ev.cleared \in 0..4)
  /\ [][ev'.locked =>
          \A landed \in {Landing} :
          \A n \in {Cardinality(FullRows(merge(board, landed)))} :
          \A gained \in {score' - score - 2 * (landed.y - current.y)} :
             /\ n <= 4 /\ ev'.cleared = n
             /\ n >= 1 =>
                  /\ n \in DOMAIN LINE_SCORES
                  /\ gained > 0
                  /\ gained = LineScoreTable[n] * level]_vars

\* a lock cleared four rows at once and added 1200 for them
C20_Witness == ev.locked /\ ev.cleared = 4 /\ lines = 8 /\ level = 1 /\ score > 1200

----------------------------------------------------------------------------
(* C16 *)

\* C16, for every board of TestBoards: clearLines() removes exactly the rows with
\* every cell occupied, next to each other or not, and counts them: k.  The board
\* has ROWS rows of COLS cells afterwards, its top k rows are empty, and each row
\* that was not full lies as many rows lower as there were full rows below it, its
\* content unchanged: the rows keep their order.
C16_ClearFullLines ==
  [][last' = Click("clearLines") =>
       \A full \in {FullRows(board)} :
       \A k \in {Cardinality(full)} :
          /\ ev'.cleared = k
          /\ lines' = lines + k
          /\ DOMAIN board' = 1..ROWS
          /\ \A r \in 1..ROWS : DOMAIN board'[r] = 1..COLS
          /\ \A r \in 1..k : \A c \in 1..COLS : board'[r][c] = null
          /\ \A r \in (1..ROWS) \ full :
                board'[r + Cardinality({f \in full : f > r})] = board[r]
          /\ FullRows(board') = {}]_vars

\* three full rows were removed, and the two rows of different content that were
\* among them lie at the bottom in their order
C16_Witness ==
  /\ last = Click("clearLines") /\ ev.cleared = 3 /\ lines = 3
  /\ board[ROWS] = GapLeftRow /\ board[ROWS - 1] = OnlyRightRow
  /\ \A r \in 1..(ROWS - 2) : board[r] = EmptyRow

----------------------------------------------------------------------------
(* C17 *)

Kinds == {"I", "O", "T", "S", "Z", "J", "L"}

\* the draws 7k+1 .. 7k+7 as far as they were made
BagOf(k) == {i \in 1..Len(drawn) : (i - 1) \div 7 = k}

\* C17: the bag always holds at most 7 kinds, no kind twice, and they are the
\* kinds not yet drawn from this bag; a draw from a bag that is not empty pops its
\* last kind and does not refill it; a draw from the empty bag fills it with all 7
\* kinds, once each, and pops one.  So, counted from a reset, the draws 7k+1 to
\* 7k+7 are the 7 kinds once each, and 14 draws hold each kind exactly twice.
C17_BagPermutation ==
  /\ [](/\ Len(bag) <= 7
        /\ \A i \in 1..Len(bag) : bag[i] \in Kinds
        /\ \A i, j \in 1..Len(bag) : i # j => bag[i] # bag[j]
        /\ drawn # <<>> =>
              \A here \in {{drawn[i] : i \in BagOf((Len(drawn) - 1) \div 7)}} :
                 /\ here \cap {bag[i] : i \in 1..Len(bag)} = {}
                 /\ here \cup {bag[i] : i \in 1..Len(bag)} = Kinds)
  /\ [][(bag' # bag /\ drawn' # <<>>) =>
          /\ drawn' = Append(drawn, drawn'[Len(drawn')])
          /\ IF bag # <<>>
             THEN /\ bag' = SubSeq(bag, 1, Len(bag) - 1)
                  /\ drawn'[Len(drawn')] = bag[Len(bag)]
             ELSE /\ Len(bag') = 6
                  /\ {bag'[i] : i \in 1..6} \cup {drawn'[Len(drawn')]} = Kinds]_vars
  /\ [](\A k \in 0..((Len(drawn) \div 7) - 1) :
           /\ Cardinality(BagOf(k)) = 7
           /\ {drawn[i] : i \in BagOf(k)} = Kinds)
  /\ [](Len(drawn) >= 14 =>
           \A kind \in Kinds : Cardinality({i \in 1..14 : drawn[i] = kind}) = 2)

\* fourteen draws from a reset, the second seven in another order than the first
C17_Witness ==
  /\ Len(drawn) = 14 /\ bag = <<>>
  /\ SubSeq(drawn, 1, 7) # SubSeq(drawn, 8, 14)
  /\ drawn[8] # drawn[1] /\ drawn[14] # drawn[7]

----------------------------------------------------------------------------
(* C18 *)

\* C18 as stated: no kind appears twice within any 12 consecutive draws.
C18_NoRepeatWithinTwelveDraws ==
  \A i, j \in 1..Len(drawn) : (i < j /\ j - i < 12) => drawn[i] # drawn[j]

\* C18 as amended: no kind appears twice among the draws 7k+1 .. 7k+7 of one bag;
\* a kind comes again only in the next bag, be it in the very next draw, and from
\* one draw of a kind to the next of the same kind there are 12 other draws at
\* most: every 13 draws in a row hold all 7 kinds.
C18_NoRepeatWithinOneBag ==
  /\ \A i, j \in 1..Len(drawn) :
        (i < j /\ drawn[i] = drawn[j]) => (i - 1) \div 7 < (j - 1) \div 7
  /\ \A i, j \in 1..Len(drawn) :
        (/\ i < j /\ drawn[i] = drawn[j]
         /\ \A m \in (i + 1)..(j - 1) : drawn[m] # drawn[i])
           => /\ (j - 1) \div 7 = ((i - 1) \div 7) + 1
              /\ j - i - 1 <= 12
  /\ \A i \in 1..Len(drawn) :
        i + 12 <= Len(drawn) => {drawn[m] : m \in i..(i + 12)} = Kinds

\* the last kind of the first bag came again as the first kind of the second bag
C18_Witness == Len(drawn) >= 8 /\ drawn[7] = drawn[8]

----------------------------------------------------------------------------
(* C21 *)

\* the colours of the seven kinds
Colours == {TETROMINOES[kind].color : kind \in Kinds}

\* C21: in every state between two inputs the board has exactly ROWS rows of COLS
\* cells, each cell empty or of a piece's colour, and no row of it is full.
C21_BoardShapeAndNoFullRow ==
  /\ DOMAIN board = 1..ROWS
  /\ \A r \in 1..ROWS :
        /\ DOMAIN board[r] = 1..COLS
        /\ \A c \in 1..COLS : board[r][c] \in Colours \cup {null}
  /\ \A r \in 1..ROWS : \E c \in 1..COLS : board[r][c] = null

\* a lock cleared rows and left a row with one empty cell only
C21_Witness ==
  /\ ev.locked /\ ev.cleared >= 1 /\ lines > 0
  /\ \E r \in 1..ROWS : Cardinality({c \in 1..COLS : board[r][c] = null}) = 1

====
